---- MODULE Spec2Model ----
(***************************************************************************)
(* Model of the temporary virtual router: the CleanupManager (one-shot     *)
(* shutdown latch), the startup sequence of main(), the SimpleDoHResolver  *)
(* and the LightweightProxy's two connection paths (plain HTTP, CONNECT).  *)
(*                                                                         *)
(* One action is one turn of the Node.js event loop (a macrotask together  *)
(* with the promise continuations it makes runnable): a continuation after *)
(* an await on an already settled value runs inside the same action, an    *)
(* await on a pending promise ends the action.                             *)
(***************************************************************************)
EXTENDS Integers, Sequences, FiniteSets, TLC

\* ---------------------------------------------------------------- bounds
MaxCalls == 2        \* cleanup() calls made by the trigger sources
MaxHandlers == 2     \* length of a handler list of the stand-alone CleanupManager

MaxConns == 1        \* connections the proxy accepts
MaxBytes == 1        \* bytes each end of a tunnel writes after the handshake
MaxAddrs == 3        \* records in a DoH answer, addresses in a conventional answer

\* ---------------------------------------------------------------- state
VARIABLES
    cleanupHandlers,   \* CleanupManager.cleanupHandlers: sequence of handler kinds
    isCleaning,        \* CleanupManager.isCleaning
    pass,              \* position of the activation of cleanup() that passed the guard
    invoked,           \* invoked[i]: how many times handler i was called
    hlog,              \* order of handler calls, settlements and process.exit
    calls,             \* number of cleanup() calls so far
    passes,            \* number of cleanup() calls that got past the guard
    proc,              \* "running" | "exited"
    exitCode,          \* exit code of the process once exited, -1 before
    mainPc,            \* position of main()
    server,            \* LightweightProxy.server: "null" | "binding" | "listening" | "closed"
    dashServer,        \* WebDashboard.server, same values
    liveServerProcess, \* TEMP_CONFIG.liveServerProcess: "undefined" | "running" | "killed"
    torn,              \* how many times a registered handler tore each resource down
    webTimer,          \* the /shutdown route's setTimeout is pending
    cause,             \* what made the first cleanup() call: "trigger" (a signal, a
                       \* disconnect, an uncaught exception from outside the proxy, the
                       \* /shutdown timer, the 'exit' event) or "fault" (an exception
                       \* thrown by a listener of connection cause.conn)
    conns,             \* the proxy's connections
    rq                 \* one call of SimpleDoHResolver.resolve, followed step by step

cmVars  == <<cleanupHandlers, isCleaning, pass, invoked, hlog, calls, passes, cause>>
resVars == <<server, dashServer, liveServerProcess, torn>>
vars    == <<cmVars, resVars, proc, exitCode, mainPc, webTimer, conns, rq>>

Conns == 1..MaxConns

\* The handlers main() registers, in registration order.
MainHandlers == <<"proxyStop", "dashStop", "killLive">>

\* Handlers of a CleanupManager taken on its own: a function that returns, one
\* that returns a promise fulfilled later, one that throws an Error, one that
\* returns a promise rejected later with an Error.
GenericKinds == {"sync", "async", "throws", "rejects"}

Sources == {"SIGINT", "SIGTERM", "uncaughtException", "disconnect"}

Min(a, b) == IF a < b THEN a ELSE b

\* ------------------------------------------------------- CleanupManager
\* The part of the state a cleanup pass reads and writes, as one record.
CmState ==
    [handlers |-> cleanupHandlers, isCleaning |-> isCleaning,
     invoked |-> invoked, hlog |-> hlog, calls |-> calls, passes |-> passes,
     cause |-> cause, server |-> server, dashServer |-> dashServer,
     liveServerProcess |-> liveServerProcess, torn |-> torn,
     pc |-> pass.pc, cur |-> pass.cur, proc |-> proc, exitCode |-> exitCode]

\* LightweightProxy.stop: close the listener; the returned promise is pending
\* until the close callback fires.  Without a server it resolves at once.
ProxyStop(s) ==
    IF s.server = "null"
    THEN [s |-> s, outcome |-> "returned"]
    ELSE [s |-> [s EXCEPT !.server = "closed",
                          !.torn = [@ EXCEPT !.proxy = @ + 1]],
          outcome |-> "pending"]

\* WebDashboard.stop.
DashStop(s) ==
    IF s.dashServer = "null"
    THEN [s |-> s, outcome |-> "returned"]
    ELSE [s |-> [s EXCEPT !.dashServer = "closed",
                          !.torn = [@ EXCEPT !.dash = @ + 1]],
          outcome |-> "pending"]

\* The third handler of main(): kill the live-server process if there is one.
\* ChildProcess.kill may throw (killThrows); the process is then not killed.
KillLive(s, killThrows) ==
    IF s.liveServerProcess = "undefined"
    THEN [s |-> s, outcome |-> "returned"]
    ELSE IF killThrows
    THEN [s |-> s, outcome |-> "threw"]
    ELSE [s |-> [s EXCEPT !.liveServerProcess = "killed",
                          !.torn = [@ EXCEPT !.live = @ + 1]],
          outcome |-> "returned"]

\* handler(): what calling the handler of the given kind does.
CallHandler(kind, s, killThrows) ==
    CASE kind = "proxyStop" -> ProxyStop(s)
      [] kind = "dashStop"  -> DashStop(s)
      [] kind = "killLive"  -> KillLive(s, killThrows)
      [] kind = "sync"      -> [s |-> s, outcome |-> "returned"]
      [] kind = "throws"    -> [s |-> s, outcome |-> "threw"]
      [] OTHER              -> [s |-> s, outcome |-> "pending"]   \* "async", "rejects"

\* process.exit(0), the last statement of cleanup(): the 'exit' listener calls
\* cleanup() once more, which finds the guard set; then the process is gone.
ProcessExit0(s) ==
    [s EXCEPT !.pc = "exited", !.cur = 0, !.proc = "exited", !.exitCode = 0,
              !.calls = Min(@ + 1, MaxCalls + 1),
              !.hlog = Append(@, <<"exit", 0>>)]

AfterCallAbortsOnThrow(outcome, ctx) ==
    CASE outcome = "threw"    -> "abort"
      [] ctx = "exit"         -> "stall"
      [] outcome = "returned" -> "next"
      [] OTHER                -> "suspend"

AfterCallNeverWaits(outcome, ctx) == "next"

\* try { await handler() } catch (error) { log }: where the loop goes after the
\* call.  A synchronous throw is caught and the loop goes on at once.  Any
\* other outcome reaches the await: from the 'exit' listener (ctx = "exit")
\* nothing resumes after it, because the process terminates when the listener
\* returns; otherwise an await on a returned value resumes in the same turn
\* and an await on a pending promise suspends the pass.
AfterCall(outcome, ctx) ==
    CASE outcome = "threw"    -> "next"
      [] ctx = "exit"         -> "stall"
      [] outcome = "returned" -> "next"
      [] OTHER                -> "suspend"

\* The for-loop of cleanup() from handler i on, up to the first suspension.
RECURSIVE Run(_, _, _, _)
Run(i, s, ctx, killThrows) ==
    IF i > Len(s.handlers)
    THEN ProcessExit0(s)
    ELSE LET r  == CallHandler(s.handlers[i], s, killThrows)
             s1 == [r.s EXCEPT !.invoked = [@ EXCEPT ![i] = @ + 1],
                               !.hlog = Append(@, <<"call", i>>)]
             go == AfterCall(r.outcome, ctx)
             s2 == IF r.outcome = "pending" THEN s1
                   ELSE [s1 EXCEPT !.hlog = Append(@, <<"settle", i>>)]
         IN  CASE go = "next" -> Run(i + 1, s2, ctx, killThrows)
               [] go = "suspend" -> [s1 EXCEPT !.pc = "awaiting", !.cur = i]
               [] go = "stall"   -> [s1 EXCEPT !.pc = "stalled", !.cur = i]
               [] OTHER          -> [s1 EXCEPT !.pc = "rejected", !.cur = i]

LatchedNever(s) == FALSE

\* if (this.isCleaning) return;
Latched(s) == s.isCleaning

\* CleanupManager.cleanup(), called in context ctx by source src (conn is the
\* connection whose fault raised the uncaught exception, 0 otherwise).
cleanup(s, ctx, src, conn, killThrows) ==
    LET s0 == [s EXCEPT !.calls = Min(@ + 1, MaxCalls + 1),
                        !.cause = IF @.src = "none" THEN [src |-> src, conn |-> conn] ELSE @]
    IN  IF Latched(s0)
        THEN s0
        ELSE Run(1, [s0 EXCEPT !.isCleaning = TRUE, !.passes = @ + 1], ctx, killThrows)

\* The awaited promise settles: a fulfilment resumes the loop, a rejection is
\* caught by the same catch block and the loop goes on too.
AfterSettle(result) == "next"

\* The continuation of cleanup() after the promise of handler s.cur settled.
Resume(s, result, killThrows) ==
    IF AfterSettle(result) = "next"
    THEN Run(s.cur + 1, [s EXCEPT !.hlog = Append(@, <<"settle", s.cur>>)], "loop", killThrows)
    ELSE [s EXCEPT !.pc = "rejected"]

\* process.exit(code) called outside cleanup(): the 'exit' listener runs
\* cleanup() synchronously, then the process terminates with the code unless
\* cleanup() itself reached process.exit(0).
ProcessExit(s, code, killThrows) ==
    LET s1 == cleanup(s, "exit", "trigger", 0, killThrows)
    IN  IF s1.proc = "exited" THEN s1
        ELSE [s1 EXCEPT !.proc = "exited", !.exitCode = code]

\* Write a pass state back to the variables.
Store(s) ==
    /\ cleanupHandlers' = s.handlers
    /\ isCleaning' = s.isCleaning
    /\ invoked' = s.invoked
    /\ hlog' = s.hlog
    /\ calls' = s.calls
    /\ passes' = s.passes
    /\ cause' = s.cause
    /\ server' = s.server
    /\ dashServer' = s.dashServer
    /\ liveServerProcess' = s.liveServerProcess
    /\ torn' = s.torn
    /\ pass' = [pc |-> s.pc, cur |-> s.cur]
    /\ proc' = s.proc
    /\ exitCode' = s.exitCode

Running == proc = "running"

\* SIGINT, SIGTERM, uncaughtException, disconnect: each listener calls cleanup().
Trigger ==
    /\ Running
    /\ calls < MaxCalls
    /\ \E src \in Sources, killThrows \in BOOLEAN :
          Store(cleanup(CmState, "loop", "trigger", 0, killThrows))
    /\ UNCHANGED <<rq, mainPc, webTimer, conns>>

\* GET /shutdown on the dashboard: answer, then setTimeout(..., 1000).
WebShutdownRequest ==
    /\ Running
    /\ dashServer = "listening"
    /\ ~webTimer
    /\ calls < MaxCalls
    /\ webTimer' = TRUE
    /\ UNCHANGED <<rq, cmVars, resVars, proc, exitCode, mainPc, conns>>

\* The timer fires: shutdownFromWeb() awaits cleanup().
WebShutdownFires ==
    /\ Running
    /\ webTimer
    /\ webTimer' = FALSE
    /\ \E killThrows \in BOOLEAN :
          Store(cleanup(CmState, "loop", "trigger", 0, killThrows))
    /\ UNCHANGED <<rq, mainPc, conns>>

\* ------------------------------------------------------------- main()
\* proxy.start() resolves in the listen callback; main() goes on to construct
\* the dashboard and to call dashboard.start().
ProxyListening ==
    /\ Running
    /\ mainPc = "proxyStarting"
    /\ server' = "listening"
    /\ dashServer' = "binding"
    /\ mainPc' = "dashStarting"
    /\ UNCHANGED <<rq, cmVars, liveServerProcess, torn, proc, exitCode, webTimer, conns>>

\* dashboard.start() resolves; main() registers its three handlers and
\* startLiveServer() spawns the live-server process.  What main() does once
\* the live server has printed its URL (logging, opening the browser) changes
\* nothing of this state, so "liveStarting" is its last position here.
DashListening ==
    /\ Running
    /\ mainPc = "dashStarting"
    /\ dashServer' = "listening"
    /\ cleanupHandlers' = cleanupHandlers \o MainHandlers
    /\ liveServerProcess' = "running"
    /\ mainPc' = "liveStarting"
    /\ UNCHANGED <<rq, isCleaning, pass, invoked, hlog, calls, passes, cause,
                   server, torn, proc, exitCode, webTimer, conns>>

\* As DashListening, but exec() throws inside startLiveServer(): main() rejects.
\* Started from go-live.js the rejection handler calls process.exit(1); started
\* as the main module it only logs the error and the servers stay up.
MainRejects ==
    /\ Running
    /\ mainPc = "dashStarting"
    /\ \E entry \in {"go-live", "module"}, killThrows \in BOOLEAN :
          LET s == [CmState EXCEPT !.dashServer = "listening",
                                   !.handlers = @ \o MainHandlers]
          IN  IF entry = "go-live"
              THEN Store(ProcessExit(s, 1, killThrows))
              ELSE Store(s)
    /\ mainPc' = "rejected"
    /\ UNCHANGED <<rq, webTimer, conns>>

\* ---------------------------------------------------- SimpleDoHResolver
\* What the DoH query can come to, and the conventional lookup.
DohOutcomes ==
    {[t |-> "answer", recs |-> rs] : rs \in {<<>>, <<[data |-> "ip1"]>>}}
    \cup {[t |-> k, recs |-> <<>>] : k \in {"noAnswer", "malformed", "error", "timeout"}}

DnsOutcomes ==
    {[t |-> "ok", addrs |-> <<"ip1">>]}
    \cup {[t |-> "err", addrs |-> <<>>]}

AnswerDataReversed(recs) == [i \in 1..Len(recs) |-> recs[Len(recs) + 1 - i].data]

\* response.data.Answer.map(ans => ans.data)
AnswerData(recs) == [i \in 1..Len(recs) |-> recs[i].data]

FallbackFirstOnly(dns) == IF dns.t = "err" THEN <<>> ELSE <<dns.addrs[1]>>

\* dns.resolve4(hostname, (err, addresses) => resolve(err ? [] : addresses))
Fallback(dns) == IF dns.t = "err" THEN <<>> ELSE dns.addrs

\* A call of resolve() that has not started.
NoOutcome == [t |-> "none"]
NewCall ==
    [pc |-> "idle",          \* "idle" | "doh" | "dns" | "fulfilled" | "rejected"
     doh |-> NoOutcome,      \* what the DoH query came to
     dns |-> NoOutcome,      \* what the conventional lookup came to
     dohQueries |-> 0,       \* axios.get calls issued
     dnsLookups |-> 0,       \* dns.resolve4 calls issued
     value |-> <<>>]         \* what the returned promise fulfilled with

\* resolve() is called: it issues axios.get and awaits it.
Called(r) == [r EXCEPT !.pc = "doh", !.dohQueries = @ + 1]

OnDohSettledFallsBackWithoutAnswer(r, doh) ==
    LET r1 == [r EXCEPT !.doh = doh]
    IN  IF doh.t = "answer"
        THEN [r1 EXCEPT !.pc = "fulfilled", !.value = AnswerData(doh.recs)]
        ELSE [r1 EXCEPT !.pc = "dns", !.dnsLookups = @ + 1]

\* The awaited axios.get settles.  A fulfilled response with a truthy Answer
\* is mapped and returned; one without Answer falls out of the try block to
\* `return []`; a rejection (error, timeout) or an exception thrown while the
\* response is read (malformed) enters the catch block, which issues
\* dns.resolve4 and returns the promise of its answer.
OnDohSettled(r, doh) ==
    LET r1 == [r EXCEPT !.doh = doh]
    IN  CASE doh.t = "answer" ->
                [r1 EXCEPT !.pc = "fulfilled", !.value = AnswerData(doh.recs)]
          [] doh.t = "noAnswer" ->
                [r1 EXCEPT !.pc = "fulfilled", !.value = <<>>]
          [] OTHER ->
                [r1 EXCEPT !.pc = "dns", !.dnsLookups = @ + 1]

\* The callback of dns.resolve4 runs and resolves the returned promise.
OnDnsSettled(r, dns) ==
    [r EXCEPT !.dns = dns, !.pc = "fulfilled", !.value = Fallback(dns)]

\* SimpleDoHResolver.resolve from call to return: the addresses it returns,
\* and how many DoH queries and conventional lookups it issued.
resolve(doh, dns) ==
    LET r1 == OnDohSettled(Called(NewCall), doh)
        r2 == IF r1.pc = "dns" THEN OnDnsSettled(r1, dns) ELSE r1
    IN  [addresses |-> r2.value, doh |-> r2.dohQueries, dns |-> r2.dnsLookups]

\* The value JavaScript gives for a property an object does not have.
Undefined == "undefined"

Addrs == {"ip1", "ip2", "ip3"}

SeqsUpTo(S, n) == UNION {[1..m -> S] : m \in 0..n}

\* Every way the DoH query of a call can end: a response whose Answer array
\* holds up to MaxAddrs records (none included), each with an address in its
\* data field or without a data field; a response without Answer; a response
\* that cannot be read (no object as data, an Answer that is no array, a
\* record that is null); a network or HTTP error; the 3 s timeout.
DohResponses ==
    {[t |-> "answer", recs |-> rs] :
        rs \in SeqsUpTo({[data |-> d] : d \in Addrs \cup {Undefined}}, MaxAddrs)}
    \cup {[t |-> k, recs |-> <<>>] : k \in {"noAnswer", "malformed", "error", "timeout"}}

\* Every way the conventional lookup can end: an error, or a non-empty list
\* of up to MaxAddrs addresses.
DnsAnswers ==
    {[t |-> "ok", addrs |-> as] : as \in SeqsUpTo(Addrs, MaxAddrs) \ {<<>>}}
    \cup {[t |-> "err", addrs |-> <<>>]}

ResolveCall ==
    /\ rq.pc = "idle"
    /\ rq' = Called(rq)
    /\ UNCHANGED <<cmVars, resVars, proc, exitCode, mainPc, webTimer, conns>>

DohSettles ==
    /\ rq.pc = "doh"
    /\ \E doh \in DohResponses : rq' = OnDohSettled(rq, doh)
    /\ UNCHANGED <<cmVars, resVars, proc, exitCode, mainPc, webTimer, conns>>

DnsSettles ==
    /\ rq.pc = "dns"
    /\ \E dns \in DnsAnswers : rq' = OnDnsSettled(rq, dns)
    /\ UNCHANGED <<cmVars, resVars, proc, exitCode, mainPc, webTimer, conns>>

\* ------------------------------------------------------ LightweightProxy
EstablishedLine == "HTTP/1.1 200 Connection Established\r\n\r\n"

Bodies == {<<>>, <<"b">>}
Statuses == {200, 404}

\* The serialised forms on the wire.
RequestLine == "GET http://example.local/ HTTP/1.1 + headers"
WireRequest(body) == <<RequestLine>> \o body
StatusLine(status) == IF status = 200 THEN "HTTP/1.1 200 + headers" ELSE "HTTP/1.1 404 + headers"
WireResponse(status, body) == <<StatusLine(status)>> \o body

FreeConn ==
    [kind |-> "none",        \* "http" (request event) | "connect" (connect event)
     st |-> "free",          \* "resolving" | "dialing" | "relaying" | "done"
     reqBody |-> <<>>,       \* body of the client's HTTP request, known once it streams
     head |-> <<>>,          \* CONNECT: bytes the client sent after the request head
     portOk |-> TRUE,        \* CONNECT: FALSE once net.connect refused the request line's port
     addresses |-> <<>>,     \* what resolve() returned
     resolved |-> FALSE,     \* resolve() has returned
     dials |-> 0,            \* net.connect calls
     status |-> 0,           \* HTTP: status of the response head sent, 0 if none yet
     writeHeads |-> 0,       \* HTTP: writeHead calls
     toClient |-> <<>>,      \* HTTP: response body written; CONNECT: bytes written to the client socket
     ended |-> FALSE,        \* clientRes.end() / clientSocket.end() was called
     clientOpen |-> FALSE,   \* the client's end of the connection is open
     clientSent |-> <<>>,    \* CONNECT: bytes the client wrote after the handshake
     toUpstream |-> <<>>,    \* bytes written to the upstream socket
     up |-> "none",          \* upstream socket: "connecting" | "open" | "ended" | "closed" | "failed"
     upStatus |-> 0,         \* HTTP: the status the upstream answered with, 0 if none yet
     upSent |-> <<>>,        \* HTTP: the body the upstream answered with; CONNECT: bytes it wrote
     order |-> <<>>]         \* the handler's steps in the order it took them

\* net.connect(...) and the listeners attached right after it.
Dial(k) ==
    [k EXCEPT !.st = "dialing", !.dials = @ + 1, !.up = "connecting",
              !.order = Append(@, "dial")]

\* `const addresses = await this.dohResolver.resolve(...)` has returned.
Resolved(k, addresses) ==
    [k EXCEPT !.addresses = addresses, !.resolved = TRUE, !.order = Append(@, "resolved")]

\* clientRes.writeHead(status); clientRes.end(text)
Respond(k, status, text) ==
    [k EXCEPT !.status = status, !.writeHeads = @ + 1,
              !.toClient = Append(@, text), !.ended = TRUE, !.st = "done"]

\* clientSocket.end()
EndClient(k) == [k EXCEPT !.ended = TRUE, !.st = "done"]

HttpOnResolvedNoReply(k, addresses) ==
    LET k1 == Resolved(k, addresses)
    IN  IF Len(addresses) = 0
        THEN [k1 EXCEPT !.st = "done"]
        ELSE Dial(k1)

HttpOnResolvedAlwaysDials(k, addresses) ==
    Dial(Resolved(k, addresses))

\* handleRequest after `await this.dohResolver.resolve(...)`.
HttpOnResolved(k, addresses) ==
    LET k1 == Resolved(k, addresses)
    IN  IF Len(addresses) = 0
        THEN Respond(k1, 502, "DNS Failed")
        ELSE Dial(k1)

\* handleHttps after `await this.dohResolver.resolve(hostname)`.  net.connect
\* throws on a port that is no valid port; the catch block ends the client.
HttpsOnResolved(k, addresses, portOk) ==
    LET k1 == Resolved(k, addresses)
    IN  IF Len(addresses) > 0
        THEN IF portOk THEN Dial(k1) ELSE EndClient([k1 EXCEPT !.portOk = FALSE])
        ELSE EndClient(k1)

\* The connect callback of handleRequest: clientReq.pipe(targetSocket) carries
\* the request's body (an IncomingMessage streams the body only);
\* targetSocket.pipe(clientRes) is set up.
HttpOnConnect(k, body) ==
    [k EXCEPT !.st = "relaying", !.up = "open", !.reqBody = body, !.toUpstream = @ \o body,
              !.order = @ \o <<"connected", "pipe">>]

\* The two pipes of handleHttps once they are set up.  If the client's end is
\* closed already, clientSocket.pipe(targetSocket) finds the end of the stream
\* (or the write of the success line fails and the 'error' listener runs):
\* either way targetSocket.end() follows.
Piped(k) ==
    IF k.clientOpen
    THEN [k EXCEPT !.st = "relaying", !.order = Append(@, "pipe")]
    ELSE [k EXCEPT !.st = "done", !.up = "ended", !.order = Append(@, "pipe")]

HttpsOnConnectDropsHead(k) ==
    Piped([k EXCEPT !.up = "open",
                    !.toClient = Append(@, EstablishedLine),
                    !.order = @ \o <<"connected", "line", "head">>])

HttpsOnConnectHeadFirst(k) ==
    Piped([k EXCEPT !.up = "open",
                    !.toUpstream = @ \o k.head,
                    !.toClient = Append(@, EstablishedLine),
                    !.order = @ \o <<"connected", "head", "line">>])

\* The connect callback of handleHttps: write the success line to the client,
\* write the buffered head to the upstream, set up the two pipes.
HttpsOnConnect(k) ==
    Piped([k EXCEPT !.up = "open",
                    !.toClient = Append(@, EstablishedLine),
                    !.toUpstream = @ \o k.head,
                    !.order = @ \o <<"connected", "line", "head">>])

\* clientRes.write(chunk) for the chunks the pipe delivers: the first write
\* sends the implicit head (status 200), every chunk goes into the body.
ResWrite(k, chunks) ==
    [k EXCEPT !.status = IF @ = 0 THEN 200 ELSE @, !.toClient = @ \o chunks]

\* The upstream socket after its 'error': "failed" if the dial never
\* connected, "closed" if the error came during the relay.
Errored(k) == IF k.st = "dialing" THEN "failed" ELSE "closed"

HttpOnUpstreamErrorAnswers500(k) ==
    IF k.status = 0
    THEN [k |-> [Respond(k, 500, "Proxy Error") EXCEPT !.up = Errored(k)], threw |-> FALSE]
    ELSE [k |-> [k EXCEPT !.writeHeads = @ + 1, !.up = Errored(k), !.st = "done"], threw |-> TRUE]

\* targetSocket.on('error') of handleRequest.  writeHead throws
\* ERR_HTTP_HEADERS_SENT once a head was sent; the throw leaves the listener.
HttpOnUpstreamError(k) ==
    IF k.status = 0
    THEN [k |-> [Respond(k, 502, "Connection Failed") EXCEPT !.up = Errored(k)], threw |-> FALSE]
    ELSE [k |-> [k EXCEPT !.writeHeads = @ + 1, !.up = Errored(k), !.st = "done"], threw |-> TRUE]

\* targetSocket.on('error') of handleHttps.
HttpsOnUpstreamError(k) == [EndClient(k) EXCEPT !.up = Errored(k)]

\* The listener counts a connection until its client socket is closed.
ConnOpen(k) == k.st # "free" /\ k.clientOpen /\ ~k.ended

FirstFree(c) == conns[c].st = "free" /\ \A d \in Conns : d < c => conns[d].st # "free"

Accepting == Running /\ server = "listening"

\* 'request' event: handleRequest up to its first await.  An unparsable
\* target makes new URL() throw: the catch block answers 500.
AcceptHttp ==
    /\ Accepting
    /\ \E c \in Conns, urlOk \in BOOLEAN :
          /\ FirstFree(c)
          /\ LET k == [FreeConn EXCEPT !.kind = "http", !.clientOpen = TRUE]
             IN  conns' = [conns EXCEPT ![c] =
                    IF urlOk THEN [k EXCEPT !.st = "resolving"]
                    ELSE Respond(k, 500, "Proxy Error")]
    /\ UNCHANGED <<rq, cmVars, resVars, proc, exitCode, mainPc, webTimer>>

\* 'connect' event: handleHttps up to its await.
AcceptConnect ==
    /\ Accepting
    /\ \E c \in Conns, head \in {<<>>, <<"h">>} :
          /\ FirstFree(c)
          /\ conns' = [conns EXCEPT ![c] =
                [FreeConn EXCEPT !.kind = "connect", !.clientOpen = TRUE, !.st = "resolving",
                                 !.head = head]]
    /\ UNCHANGED <<rq, cmVars, resVars, proc, exitCode, mainPc, webTimer>>

\* resolve() returns and the handler goes on.
ResolveDone ==
    /\ Running
    /\ \E c \in Conns, doh \in DohOutcomes, dns \in DnsOutcomes, portOk \in BOOLEAN :
          /\ conns[c].st = "resolving"
          /\ LET a == resolve(doh, dns).addresses
             IN  conns' = [conns EXCEPT ![c] =
                    IF conns[c].kind = "http" THEN HttpOnResolved(@, a)
                    ELSE HttpsOnResolved(@, a, portOk)]
    /\ UNCHANGED <<rq, cmVars, resVars, proc, exitCode, mainPc, webTimer>>

\* The upstream socket connects.
DialConnected ==
    /\ Running
    /\ \E c \in Conns, body \in Bodies :
          /\ conns[c].st = "dialing"
          /\ conns' = [conns EXCEPT ![c] =
                IF conns[c].kind = "http" THEN HttpOnConnect(@, body) ELSE HttpsOnConnect(@)]
    /\ UNCHANGED <<rq, cmVars, resVars, proc, exitCode, mainPc, webTimer>>

\* 'error' on the upstream socket of connection c.  A throw from the listener
\* is an uncaught exception, whose listener calls cleanup().
OnUpstreamError(c, killThrows) ==
    IF conns[c].kind = "http"
    THEN LET r == HttpOnUpstreamError(conns[c])
         IN  /\ conns' = [conns EXCEPT ![c] = r.k]
             /\ IF r.threw
                THEN Store(cleanup(CmState, "loop", "fault", c, killThrows))
                ELSE Store(CmState)
    ELSE /\ conns' = [conns EXCEPT ![c] = HttpsOnUpstreamError(@)]
         /\ Store(CmState)

\* The dial fails: 'error' before the connect callback.
DialFails ==
    /\ Running
    /\ \E c \in Conns, killThrows \in BOOLEAN :
          /\ conns[c].st = "dialing"
          /\ OnUpstreamError(c, killThrows)
    /\ UNCHANGED <<rq, mainPc, webTimer>>

\* The upstream socket errors during the relay.
UpstreamError ==
    /\ Running
    /\ \E c \in Conns, killThrows \in BOOLEAN :
          /\ conns[c].st = "relaying"
          /\ OnUpstreamError(c, killThrows)
    /\ UNCHANGED <<rq, mainPc, webTimer>>

\* The upstream answers a plain-HTTP relay with (status, body); the pipe
\* writes the bytes it sent into clientRes.
UpstreamResponds ==
    /\ Running
    /\ \E c \in Conns, status \in Statuses, body \in Bodies :
          /\ conns[c].kind = "http"
          /\ conns[c].st = "relaying"
          /\ conns[c].upStatus = 0
          /\ conns' = [conns EXCEPT ![c] =
                ResWrite([@ EXCEPT !.upStatus = status, !.upSent = body],
                         WireResponse(status, body))]
    /\ UNCHANGED <<rq, cmVars, resVars, proc, exitCode, mainPc, webTimer>>

\* The n-th byte each end of a tunnel writes: all different, so that a byte
\* dropped, repeated or out of place shows.
ClientByte(n) == CASE n = 1 -> "c1" [] n = 2 -> "c2" [] n = 3 -> "c3" [] OTHER -> "c4"
UpstreamByte(n) == CASE n = 1 -> "u1" [] n = 2 -> "u2" [] n = 3 -> "u3" [] OTHER -> "u4"

\* The upstream writes a byte into an established tunnel.
UpstreamWrites ==
    /\ Running
    /\ \E c \in Conns :
          /\ conns[c].kind = "connect"
          /\ conns[c].st = "relaying"
          /\ Len(conns[c].upSent) < MaxBytes
          /\ conns' = [conns EXCEPT ![c] =
                [@ EXCEPT !.upSent = Append(@, UpstreamByte(Len(@) + 1)),
                          !.toClient = Append(@, UpstreamByte(Len(conns[c].upSent) + 1))]]
    /\ UNCHANGED <<rq, cmVars, resVars, proc, exitCode, mainPc, webTimer>>

\* The client writes a byte into an established tunnel.
ClientWrites ==
    /\ Running
    /\ \E c \in Conns :
          /\ conns[c].kind = "connect"
          /\ conns[c].st = "relaying"
          /\ conns[c].clientOpen
          /\ Len(conns[c].clientSent) < MaxBytes
          /\ conns' = [conns EXCEPT ![c] =
                [@ EXCEPT !.clientSent = Append(@, ClientByte(Len(@) + 1)),
                          !.toUpstream = Append(@, ClientByte(Len(conns[c].clientSent) + 1))]]
    /\ UNCHANGED <<rq, cmVars, resVars, proc, exitCode, mainPc, webTimer>>

\* The upstream ends its side: the pipe ends clientRes / clientSocket.
UpstreamEnds ==
    /\ Running
    /\ \E c \in Conns :
          /\ conns[c].st = "relaying"
          /\ conns' = [conns EXCEPT ![c] = [EndClient(@) EXCEPT !.up = "closed"]]
    /\ UNCHANGED <<rq, cmVars, resVars, proc, exitCode, mainPc, webTimer>>

\* The client closes its end.  In an established tunnel the pipe ends the
\* upstream socket; nothing else listens for it.
ClientCloses ==
    /\ Running
    /\ \E c \in Conns :
          /\ ConnOpen(conns[c])
          /\ conns' = [conns EXCEPT ![c] =
                IF conns[c].kind = "connect" /\ conns[c].st = "relaying"
                THEN [@ EXCEPT !.clientOpen = FALSE, !.up = "ended", !.st = "done"]
                ELSE [@ EXCEPT !.clientOpen = FALSE]]
    /\ UNCHANGED <<rq, cmVars, resVars, proc, exitCode, mainPc, webTimer>>

\* ------------------------------------------------- close callbacks
Awaiting(kinds) ==
    /\ pass.pc = "awaiting"
    /\ cleanupHandlers[pass.cur] \in kinds

\* server.close(() => resolve()) of LightweightProxy.stop: the callback fires
\* once the listener has no connection left.
ProxyCloseCallback ==
    /\ Running
    /\ Awaiting({"proxyStop"})
    /\ \A c \in Conns : ~ConnOpen(conns[c])
    /\ \E killThrows \in BOOLEAN : Store(Resume(CmState, "fulfilled", killThrows))
    /\ UNCHANGED <<rq, mainPc, webTimer, conns>>

\* The close callback of WebDashboard.stop.
DashCloseCallback ==
    /\ Running
    /\ Awaiting({"dashStop"})
    /\ \E killThrows \in BOOLEAN : Store(Resume(CmState, "fulfilled", killThrows))
    /\ UNCHANGED <<rq, mainPc, webTimer, conns>>

\* ------------------------------------------------------- the program
HandlerSlots == 1..(Len(MainHandlers) + MaxHandlers)

InitCommon ==
    /\ isCleaning = FALSE
    /\ pass = [pc |-> "idle", cur |-> 0]
    /\ invoked = [i \in HandlerSlots |-> 0]
    /\ hlog = <<>>
    /\ calls = 0
    /\ passes = 0
    /\ proc = "running"
    /\ exitCode = -1
    /\ dashServer = "null"
    /\ liveServerProcess = "undefined"
    /\ torn = [proxy |-> 0, dash |-> 0, live |-> 0]
    /\ webTimer = FALSE
    /\ cause = [src |-> "none", conn |-> 0]
    /\ conns = [c \in Conns |-> FreeConn]
    /\ rq = NewCall

\* main() has constructed the CleanupManager and the proxy and awaits proxy.start().
Init ==
    /\ InitCommon
    /\ cleanupHandlers = <<>>
    /\ mainPc = "proxyStarting"
    /\ server = "binding"

Next ==
    \/ Trigger
    \/ WebShutdownRequest
    \/ WebShutdownFires
    \/ ProxyListening
    \/ DashListening
    \/ MainRejects
    \/ AcceptHttp
    \/ AcceptConnect
    \/ ResolveDone
    \/ DialConnected
    \/ DialFails
    \/ UpstreamError
    \/ UpstreamResponds
    \/ UpstreamWrites
    \/ ClientWrites
    \/ UpstreamEnds
    \/ ClientCloses
    \/ ProxyCloseCallback
    \/ DashCloseCallback

Spec == Init /\ [][Next]_vars

\* Fairness: what the program and the platform do by themselves sooner or
\* later (callbacks of listen and close, the answer of resolve() within its
\* timeouts, the outcome of a dial, the expiry of the /shutdown timer).  What
\* clients, upstreams and signal senders do is not fair: a peer may keep its
\* socket open for ever.
FairSpec ==
    /\ Spec
    /\ WF_vars(ProxyListening)
    /\ WF_vars(DashListening \/ MainRejects)
    /\ WF_vars(WebShutdownFires)
    /\ WF_vars(ResolveDone)
    /\ WF_vars(DialConnected \/ DialFails)
    /\ WF_vars(ProxyCloseCallback)
    /\ WF_vars(DashCloseCallback)

\* ------------------------------------- the CleanupManager on its own
\* A CleanupManager with any list of up to MaxHandlers handlers, driven by its
\* process listeners only.
HandlerLists == UNION {[1..n -> GenericKinds] : n \in 0..MaxHandlers}

InitCM ==
    /\ InitCommon
    /\ cleanupHandlers \in HandlerLists
    /\ mainPc = "none"
    /\ server = "null"

\* The promise the awaited handler returned settles.
HandlerSettles ==
    /\ Running
    /\ Awaiting({"async", "rejects"})
    /\ Store(Resume(CmState,
                    IF cleanupHandlers[pass.cur] = "rejects" THEN "rejected" ELSE "fulfilled",
                    FALSE))
    /\ UNCHANGED <<rq, mainPc, webTimer, conns>>

\* The process exits without cleanup() having ended it (process.exit(code)
\* elsewhere, or nothing left to do): the 'exit' listener calls cleanup().
ExitEvent ==
    /\ Running
    /\ \E code \in {0, 1} : Store(ProcessExit(CmState, code, FALSE))
    /\ UNCHANGED <<rq, mainPc, webTimer, conns>>

NextCM ==
    \/ Trigger
    \/ HandlerSettles
    \/ ExitEvent

SpecCM == InitCM /\ [][NextCM]_vars

\* -------------------------------------------- the resolver on its own
\* One call of resolve(), with every outcome of its DoH query and of its
\* conventional lookup.
InitResolve ==
    /\ InitCommon
    /\ cleanupHandlers = <<>>
    /\ mainPc = "none"
    /\ server = "null"

NextResolve ==
    \/ ResolveCall
    \/ DohSettles
    \/ DnsSettles

SpecResolve == InitResolve /\ [][NextResolve]_vars

\* ------------------------------------------------------------- claims
Registered == 1..Len(cleanupHandlers)

Logged(ev, i) == \E n \in 1..Len(hlog) : hlog[n] = <<ev, i>>

\* C1: whatever the interleaving of cleanup() calls, at most one call gets
\* past the isCleaning guard and no registered handler is invoked more than
\* once; every other call (calls - passes of them) returns at the guard.
C1_AtMostOnePass ==
    /\ passes <= 1
    /\ passes <= calls
    /\ \A i \in HandlerSlots : invoked[i] <= 1
    /\ (passes = 0) => \A i \in HandlerSlots : invoked[i] = 0

\* A second call arrived while the first pass was suspended awaiting a handler.
C1_Witness ==
    /\ pass.pc = "awaiting"
    /\ calls >= 2
    /\ passes = 1
    /\ invoked[1] = 1

\* C2: when the process has terminated after a shutdown trigger, every
\* handler registered at the trigger has been invoked.
C2_EveryHandlerInvoked ==
    (proc = "exited" /\ isCleaning) => \A i \in Registered : invoked[i] >= 1

\* C3: a handler that failed (threw, or returned a promise that was rejected)
\* does not stop the pass and its failure does not leave cleanup(): the next
\* handler has been invoked, or, after the last handler, process.exit.
C3_FailureDoesNotStopPass ==
    /\ pass.pc # "rejected"
    /\ \A i \in Registered :
          (cleanupHandlers[i] \in {"throws", "rejects"} /\ Logged("settle", i))
          => IF i < Len(cleanupHandlers) THEN invoked[i + 1] = 1 ELSE pass.pc = "exited"

\* The first handler's promise was rejected and the second handler was invoked.
C3_Witness ==
    /\ Len(cleanupHandlers) >= 2
    /\ cleanupHandlers[1] = "rejects"
    /\ Logged("settle", 1)
    /\ invoked[2] = 1

\* C4: once cleanup() has been called in the running process (by a signal, a
\* fault, a disconnect or the /shutdown timer), the process eventually
\* terminates with exit code 0, whatever the proxy's connections do.
C4_EventuallyExitsZero ==
    (isCleaning /\ proc = "running") ~> (proc = "exited" /\ exitCode = 0)

\* C5: when the process has terminated, every listener that was open and the
\* subprocess, if spawned, have been torn down by a registered handler exactly
\* once.
C5_EverythingTornDownOnce ==
    proc = "exited" =>
        /\ server \in {"listening", "closed"} => torn.proxy = 1
        /\ dashServer \in {"listening", "closed"} => torn.dash = 1
        /\ liveServerProcess # "undefined" => torn.live = 1

\* C6: no fault of a connection starts the cleanup pass (which would close
\* the listener and end the process, and with it every other connection).
C6_FaultStaysLocal ==
    cause.src # "fault"

\* C7: an upstream socket is dialled only after resolve() returned a
\* non-empty address list for the connection.
C7_DialOnlyAfterAddresses ==
    \A c \in Conns :
        /\ conns[c].dials > 0 => (conns[c].resolved /\ Len(conns[c].addresses) > 0)
        /\ conns[c].up # "none" => conns[c].dials > 0

\* A plain-HTTP connection dialled after a non-empty resolution.
C7_Witness ==
    \E c \in Conns :
        /\ conns[c].kind = "http"
        /\ conns[c].dials = 1
        /\ Len(conns[c].addresses) > 0

\* C8: once resolution has given the empty list, a plain-HTTP request has its
\* 502 response, ended, and a CONNECT request has its client socket ended
\* with nothing written to it; the answer is given in the turn in which
\* resolve() returns, so the client is not left waiting.
C8_EmptyResolutionAnswered ==
    \A c \in Conns :
        (conns[c].resolved /\ Len(conns[c].addresses) = 0) =>
            /\ conns[c].ended
            /\ conns[c].dials = 0
            /\ conns[c].kind = "http" =>
                  (conns[c].status = 502 /\ conns[c].toClient = <<"DNS Failed">>)
            /\ conns[c].kind = "connect" => conns[c].toClient = <<>>

\* A plain-HTTP request whose resolution was empty.
C8_Witness ==
    \E c \in Conns :
        /\ conns[c].kind = "http"
        /\ conns[c].resolved
        /\ Len(conns[c].addresses) = 0
        /\ conns[c].status = 502

\* C9: after a failed dial a plain-HTTP request has its 502 response, ended,
\* and a CONNECT request has its client socket ended without the
\* 'Connection Established' line written to it.
C9_DialFailureAnswered ==
    \A c \in Conns :
        conns[c].up = "failed" =>
            /\ conns[c].ended
            /\ conns[c].kind = "http" =>
                  (conns[c].status = 502 /\ conns[c].toClient = <<"Connection Failed">>)
            /\ conns[c].kind = "connect" =>
                  \A n \in 1..Len(conns[c].toClient) : conns[c].toClient[n] # EstablishedLine

\* A plain-HTTP request whose dial failed.
C9_Witness ==
    \E c \in Conns :
        /\ conns[c].kind = "http"
        /\ conns[c].up = "failed"
        /\ conns[c].status = 502

\* C10: when a plain-HTTP relay has completed (the upstream answered and
\* ended), the upstream was sent the client's request and the client got the
\* upstream's status and body.
C10_PassThroughFidelity ==
    \A c \in Conns :
        (conns[c].kind = "http" /\ conns[c].upStatus # 0 /\ conns[c].ended) =>
            /\ conns[c].toUpstream = WireRequest(conns[c].reqBody)
            /\ conns[c].status = conns[c].upStatus
            /\ conns[c].toClient = conns[c].upSent

\* The handler of the connection took the step.
Did(k, step) == \E n \in 1..Len(k.order) : k.order[n] = step

C12_DohAnswerReturned ==
    (rq.pc = "fulfilled" /\ rq.doh.t = "answer" /\ Len(rq.doh.recs) > 0) =>
        /\ Len(rq.value) = Len(rq.doh.recs)
        /\ \A i \in 1..Len(rq.doh.recs) : rq.value[i] = rq.doh.recs[i].data
        /\ rq.dnsLookups = 0

\* A call that returned an answer of two records with different addresses.
C12_Witness ==
    /\ rq.pc = "fulfilled"
    /\ rq.doh.t = "answer"
    /\ Len(rq.doh.recs) >= 2
    /\ rq.doh.recs[1].data \in Addrs
    /\ rq.doh.recs[2].data \in Addrs
    /\ rq.doh.recs[1].data # rq.doh.recs[2].data
    /\ rq.value = <<rq.doh.recs[1].data, rq.doh.recs[2].data>> \o SubSeq(rq.value, 3, Len(rq.value))

\* C13: when the DoH query ended in an error or its timeout, resolve()
\* returns the addresses of the conventional lookup if that succeeded, and
\* the empty sequence if it failed.
C13_FallbackReturned ==
    (rq.pc = "fulfilled" /\ rq.doh.t \in {"error", "timeout"}) =>
        /\ rq.dns.t = "ok" => rq.value = rq.dns.addrs
        /\ rq.dns.t = "err" => rq.value = <<>>
        /\ rq.dns.t \in {"ok", "err"}

\* A call whose DoH query timed out and whose conventional lookup gave two
\* addresses.
C13_Witness ==
    /\ rq.pc = "fulfilled"
    /\ rq.doh.t = "timeout"
    /\ rq.dns.t = "ok"
    /\ Len(rq.dns.addrs) = 2
    /\ rq.value = rq.dns.addrs

\* C14: one call of resolve() issues its DoH query once, and the
\* conventional lookup at most once and only after the DoH query failed: it
\* was rejected (error, timeout) or reading its response threw.
C14_SingleQuerySingleFallback ==
    /\ rq.dohQueries <= 1
    /\ rq.pc # "idle" => rq.dohQueries = 1
    /\ rq.dnsLookups <= 1
    /\ rq.dnsLookups = 1 => rq.doh.t \in {"malformed", "error", "timeout"}
    /\ rq.pc = "dns" => rq.dnsLookups = 1

\* A call that returned after its one conventional lookup.
C14_Witness ==
    /\ rq.pc = "fulfilled"
    /\ rq.dohQueries = 1
    /\ rq.dnsLookups = 1

\* C15: the promise of resolve() never rejects and fulfils with a sequence
\* of address strings, whatever the DoH query and the conventional lookup
\* come to.
C15_NeverRejectsSequenceOfStrings ==
    /\ rq.pc # "rejected"
    /\ rq.pc = "fulfilled" => \A i \in 1..Len(rq.value) : rq.value[i] \in Addrs

\* C16: when the DoH query errors, times out, or returns no usable answer
\* records (no Answer, or an empty one), resolve() has made one conventional
\* lookup and returns what it gave.
C16_FallbackWithoutUsableAnswer ==
    (/\ rq.pc = "fulfilled"
     /\ \/ rq.doh.t \in {"error", "timeout", "noAnswer"}
        \/ (rq.doh.t = "answer" /\ rq.doh.recs = <<>>)) =>
        /\ rq.dnsLookups = 1
        /\ rq.value = Fallback(rq.dns)

\* Place of a step in the order the handler took its steps, 0 if it did not.
Pos(k, step) ==
    IF Did(k, step) THEN CHOOSE n \in 1..Len(k.order) : k.order[n] = step ELSE 0

Before(k, a, b) == Did(k, a) /\ Pos(k, a) < Pos(k, b)

\* C17: within one connection the dial starts only after resolve() returned;
\* on the CONNECT path the success line is written only after the dial
\* succeeded, and before the buffered head is written and the pipes carry any
\* client byte to the upstream.
C17_StagesInOrder ==
    \A c \in Conns :
        LET k == conns[c]
        IN  /\ Did(k, "dial") => Before(k, "resolved", "dial")
            /\ Did(k, "connected") => Before(k, "dial", "connected")
            /\ k.kind = "connect" =>
                  /\ Did(k, "line") => Before(k, "connected", "line")
                  /\ Did(k, "head") => Before(k, "line", "head")
                  /\ Did(k, "pipe") => Before(k, "line", "pipe")
                  /\ Len(k.toClient) > 0 => (Did(k, "connected") /\ k.toClient[1] = EstablishedLine)
                  /\ Len(k.toUpstream) > 0 => (Did(k, "line") /\ Did(k, "pipe"))

\* A tunnel that took every step and carried a client byte after the head.
C17_Witness ==
    \E c \in Conns :
        /\ conns[c].kind = "connect"
        /\ conns[c].order = <<"resolved", "dial", "connected", "line", "head", "pipe">>
        /\ Len(conns[c].head) > 0
        /\ Len(conns[c].clientSent) > 0

\* C18: on either path, once the dial has started, a closed or failed socket
\* on one side of the connection has the socket on the other side closed
\* too.
C18_CloseClosesTheOther ==
    \A c \in Conns :
        conns[c].dials > 0 =>
            /\ ~conns[c].clientOpen => conns[c].up \in {"ended", "closed", "failed"}
            /\ conns[c].up \in {"closed", "failed"} => (conns[c].ended \/ ~conns[c].clientOpen)

\* The log of a complete pass over n handlers: each handler called and
\* settled before the next is called, process.exit(0) last.
InOrder(n) ==
    [j \in 1..(2 * n + 1) |->
        IF j = 2 * n + 1 THEN <<"exit", 0>>
        ELSE IF j % 2 = 1 THEN <<"call", (j + 1) \div 2>>
        ELSE <<"settle", j \div 2>>]

\* C19: a cleanup pass calls the handlers in registration order, calls
\* handler k+1 only after handler k has returned or its promise has settled,
\* and calls process.exit(0) only after the last handler has settled: at any
\* moment the log of the pass is the beginning of the in-order log.
C19_HandlersInOrderOneByOne ==
    /\ Len(hlog) <= 2 * Len(cleanupHandlers) + 1
    /\ hlog = SubSeq(InOrder(Len(cleanupHandlers)), 1, Len(hlog))

\* A complete pass over main()'s three handlers.
C19_Witness ==
    /\ Len(cleanupHandlers) = Len(MainHandlers)
    /\ hlog = InOrder(Len(MainHandlers))
    /\ torn.proxy = 1

\* C20: a plain-HTTP request gets at most one response head: writeHead is
\* called at most once, with 502 or 500, and only on a response of which no
\* head and no relayed upstream byte has been sent.
C20_SingleResponseHead ==
    \A c \in Conns :
        conns[c].kind = "http" =>
            /\ conns[c].writeHeads <= 1
            /\ conns[c].writeHeads = 1 =>
                  /\ conns[c].status \in {500, 502}
                  /\ conns[c].upStatus = 0
                  /\ Len(conns[c].toClient) = 1

====
